---- MODULE Spec2Model ----
(***************************************************************************)
(* Model of mbgl::style::expression::Within (within.cpp): the winding      *)
(* number point-in-polygon engine, the geometry dispatch around it, and    *)
(* the expression node's parse / evaluate / serialize operations.          *)
(*                                                                         *)
(* Coordinates are doubles in the source; the model uses small integers,   *)
(* on which double arithmetic is exact.  std::size_t values are kept at    *)
(* their 64 bit width as four 16-bit limbs (least significant first).      *)
(***************************************************************************)
EXTENDS Integers, Sequences, FiniteSets, TLC

VARIABLES
    enginePhase,   \* "ready" | "done": position of a pointWithinPolygons call
    engineCall,    \* [point, polys]: arguments of the call
    engineOut,     \* outcome of the call (see pointWithinPolygons)
    adapterPhase,  \* "ready" | "done": position of a pointsWithinPolygons call
    adapterCall,   \* [feature, canonical, geoJson]: arguments of the call
    adapterOut,    \* outcome of the call
    node,          \* the Within node: [live, geoJSONSource]
    parsedSource,  \* the GeoJSON value toGeoJSON produced for the live node
    parseInput,    \* the value last given to Within::parse
    fromSerialize, \* parseInput is what serialize() returned for a node
    priorSource,   \* geoJSONSource of the node that was serialized
    parseOk,       \* the last parse returned a node
    ctxErrors,     \* errors the last parse reported to the ParsingContext
    inspected,     \* the last parse called parseValue on the second element
    serialized,    \* [has, value]: what the last serialize() returned
    lastOp,        \* "none" | "parse" | "evaluate" | "serialize"
    evalParams,    \* EvaluationContext of the last evaluate
    evalOut,       \* outcome of the last evaluate
    remembered     \* [has, params, result]: an earlier evaluate of this node

engineVars == <<enginePhase, engineCall, engineOut>>
adapterVars == <<adapterPhase, adapterCall, adapterOut>>
nodeVars == <<node, parsedSource, parseInput, fromSerialize, priorSource, parseOk,
              ctxErrors, inspected, serialized, lastOp, evalParams, evalOut, remembered>>
vars == <<engineVars, adapterVars, nodeVars>>

----------------------------------------------------------------------------
(* Bounds of the model *)

\* polygon vertices lie on the lattice {0, 2, .., 2*GridN}^2
GridN == 2
\* a convex ring has 3..MaxVerts distinct vertices (plus the closing point)
MaxVerts == 4
\* a polygon of the ring-combination runs has 1..MaxRings rings
MaxRings == 2
\* a multi-point geometry has 0..MaxPoints points
MaxPoints == 2
\* arrays given to parse have 0..MaxArrayLen elements
MaxArrayLen == 3

----------------------------------------------------------------------------
(* std::size_t: 64 bit unsigned, four limbs of 16 bits, least significant
   first *)

SizeT(n) == <<n % 65536, (n \div 65536) % 65536, 0, 0>>

RECURSIVE SizeTSubFrom(_, _, _, _)
SizeTSubFrom(a, b, i, borrow) ==
    IF i > 4 THEN <<>>
    ELSE LET d == a[i] - b[i] - borrow
         IN  IF d < 0 THEN <<d + 65536>> \o SizeTSubFrom(a, b, i + 1, 1)
                      ELSE <<d>> \o SizeTSubFrom(a, b, i + 1, 0)

\* a - b on std::size_t: wraps modulo 2^64
SizeTSub(a, b) == SizeTSubFrom(a, b, 1, 0)

RECURSIVE SizeTLessFrom(_, _, _)
SizeTLessFrom(a, b, i) ==
    IF i < 1 THEN FALSE
    ELSE IF a[i] # b[i] THEN a[i] < b[i]
    ELSE SizeTLessFrom(a, b, i - 1)

\* a < b on std::size_t
SizeTLess(a, b) == SizeTLessFrom(a, b, 4)

SizeTIsZero(a) == \A i \in 1..4 : a[i] = 0

\* quotient and remainder of a by 10, limb by limb from the top
SizeTDivMod10(a) ==
    LET c4 == a[4]
        c3 == (c4 % 10) * 65536 + a[3]
        c2 == (c3 % 10) * 65536 + a[2]
        c1 == (c2 % 10) * 65536 + a[1]
    IN  [quot |-> <<c1 \div 10, c2 \div 10, c3 \div 10, c4 \div 10>>, rem |-> c1 % 10]

RECURSIVE SizeTDigits(_)
SizeTDigits(a) ==
    IF SizeTIsZero(a) THEN ""
    ELSE LET qr == SizeTDivMod10(a) IN SizeTDigits(qr.quot) \o ToString(qr.rem)

\* util::toString(std::size_t): the decimal text of the value
SizeTToString(a) == IF SizeTIsZero(a) THEN "0" ELSE SizeTDigits(a)

----------------------------------------------------------------------------
(* Points, rings, polygons *)

Pt(px, py) == [x |-> px, y |-> py]

\* double isLeft(P0, P1, P2)
isLeft(P0, P1, P2) == (P1.x - P0.x) * (P2.y - P0.y) - (P2.x - P0.x) * (P1.y - P0.y)

\* The edge test with "poly[i].y < point.y" for "poly[i].y <= point.y".
EdgeStepStrict(poly, i, point, wn) ==
    LET a == poly[i + 1]
        b == poly[i + 2]
    IN  IF a.y < point.y
        THEN IF b.y > point.y /\ isLeft(a, b, point) > 0 THEN wn + 1 ELSE wn
        ELSE IF b.y <= point.y /\ isLeft(a, b, point) < 0 THEN wn - 1 ELSE wn

\* One pass of the body of the edge loop for 0-based index i: reads poly[i]
\* and poly[i + 1] and returns the new winding number.
EdgeStep(poly, i, point, wn) ==
    LET a == poly[i + 1]
        b == poly[i + 2]
    IN  IF a.y <= point.y
        THEN IF b.y > point.y /\ isLeft(a, b, point) > 0 THEN wn + 1 ELSE wn
        ELSE IF b.y <= point.y /\ isLeft(a, b, point) < 0 THEN wn - 1 ELSE wn

\* What an out-of-bounds read of poly[i] / poly[i + 1] can lead to: the
\* behaviour is undefined, so the process may die, or the loop may go on over
\* whatever lies behind the vector and leave the counter anywhere nearby.
OutOfBoundsOutcomes(i, wn) ==
    {[status |-> "crash", wn |-> wn, iters |-> i + 1]}
    \cup {[status |-> "ok", wn |-> w, iters |-> i + 1] : w \in {wn - 1, wn, wn + 1}}

\* for (decltype(size) i = 0; i < size - 1; ++i) { ... }: the outcomes of the
\* loop from index i on; bound is size - 1 computed on std::size_t.
RECURSIVE EdgeLoop(_, _, _, _, _)
EdgeLoop(poly, point, i, wn, bound) ==
    IF ~SizeTLess(SizeT(i), bound)
    THEN {[status |-> "ok", wn |-> wn, iters |-> i]}
    ELSE IF i + 1 >= Len(poly)
    THEN OutOfBoundsOutcomes(i, wn)
    ELSE EdgeLoop(poly, point, i + 1, EdgeStep(poly, i, point, wn), bound)

\* the loop bound size - 1 of a ring, on decltype(size) = std::size_t
EdgeLoopBound(poly) == SizeTSub(SizeT(Len(poly)), SizeT(1))

\* the body of "for (auto poly : polys)" for one ring, entered with wn
RingOutcomes(poly, point, wn) == EdgeLoop(poly, point, 0, wn, EdgeLoopBound(poly))

RingRecord(poly, wn, r) ==
    [size |-> Len(poly), entryWn |-> wn, exitWn |-> r.wn, iters |-> r.iters]

\* The rings loop without "if (wn != 0) return true;": the counter runs on
\* over all rings.
AfterRingNoReturn(wn) == "next"

\* After the edge loop of a ring: "if (wn != 0) return true;", else on to the
\* next ring.
AfterRing(wn) == IF wn # 0 THEN "return" ELSE "next"

RECURSIVE RingsLoop(_, _, _, _, _)
RingsLoop(polys, point, k, wn, trace) ==
    IF k > Len(polys)
    THEN {[status |-> "ok", result |-> (wn # 0), rings |-> trace]}
    ELSE UNION {
        LET t == Append(trace, RingRecord(polys[k], wn, r))
        IN  IF r.status = "crash"
            THEN {[status |-> "crash", result |-> FALSE, rings |-> t]}
            ELSE IF AfterRing(r.wn) = "return"
            THEN {[status |-> "ok", result |-> TRUE, rings |-> t]}
            ELSE RingsLoop(polys, point, k + 1, r.wn, t)
        : r \in RingOutcomes(polys[k], point, wn)}

\* bool pointWithinPolygons(point, polys): the set of outcomes of the call, one
\* outcome unless the call runs into undefined behaviour.  An outcome is
\* [status, result, rings], rings recording per ring visited its size, the
\* winding number on entry and exit and the number of edge-loop passes.
pointWithinPolygons(point, polys) == RingsLoop(polys, point, 1, 0, <<>>)

----------------------------------------------------------------------------
(* conversion::Convertible: the configuration values parse reads.  A value is
   [kind, str, num, elems, members]; members is a sequence of [key, val]. *)

VNull == [kind |-> "null", str |-> "", num |-> 0, elems |-> <<>>, members |-> <<>>]
VNum(n) == [kind |-> "number", str |-> "", num |-> n, elems |-> <<>>, members |-> <<>>]
VStr(s) == [kind |-> "string", str |-> s, num |-> 0, elems |-> <<>>, members |-> <<>>]
VArr(es) == [kind |-> "array", str |-> "", num |-> 0, elems |-> es, members |-> <<>>]
VObj(ms) == [kind |-> "object", str |-> "", num |-> 0, elems |-> <<>>, members |-> ms]
Member(k, v) == [key |-> k, val |-> v]

isArray(v) == v.kind = "array"
\* std::size_t arrayLength(const Convertible&)
arrayLength(v) == SizeT(Len(v.elems))
\* arrayMember(v, i), i 0-based
arrayMember(v, i) == v.elems[i + 1]
isObject(v) == v.kind = "object"

\* optional<Convertible> objectMember(v, name)
objectMember(v, name) ==
    LET hits == {i \in 1..Len(v.members) : v.members[i].key = name}
    IN  IF hits = {} THEN [has |-> FALSE, val |-> VNull]
        ELSE [has |-> TRUE, val |-> v.members[CHOOSE i \in hits : \A j \in hits : i <= j].val]

\* optional<std::string> toString(const Convertible&)
toString(v) == IF v.kind = "string" THEN [has |-> TRUE, str |-> v.str]
                                    ELSE [has |-> FALSE, str |-> ""]

----------------------------------------------------------------------------
(* mbgl::GeoJSON: [kind, gtype, rings]; kind is the alternative of the outer
   variant ("geometry", "feature", "feature_collection"), gtype the
   alternative of the geometry, rings the rings of a polygon. *)

GeoJSONGeometry(t, rs) == [kind |-> "geometry", gtype |-> t, rings |-> rs]
NoGeoJSON == [kind |-> "none", gtype |-> "", rings |-> <<>>]

ConvertsToPoint(v) ==
    /\ isArray(v)
    /\ Len(v.elems) >= 2
    /\ v.elems[1].kind = "number"
    /\ v.elems[2].kind = "number"
ConvertsToRing(v) == isArray(v) /\ \A i \in 1..Len(v.elems) : ConvertsToPoint(v.elems[i])
ConvertsToPolygon(v) == isArray(v) /\ \A i \in 1..Len(v.elems) : ConvertsToRing(v.elems[i])

ConvertPoint(v) == Pt(v.elems[1].num, v.elems[2].num)
ConvertRing(v) == [i \in 1..Len(v.elems) |-> ConvertPoint(v.elems[i])]
ConvertPolygon(v) == [i \in 1..Len(v.elems) |-> ConvertRing(v.elems[i])]

\* optional<GeoJSON> toGeoJSON(const Convertible&, Error&) on an object whose
\* "type" member is "Polygon" (the only values parseValue passes to it):
\* [has, geojson, message], message being what is left in the Error.
toGeoJSON(v) ==
    LET coords == objectMember(v, "coordinates")
    IN  IF ~coords.has
        THEN [has |-> FALSE, geojson |-> NoGeoJSON,
              message |-> "GeoJSON geometry must have a coordinates property"]
        ELSE IF ~isArray(coords.val)
        THEN [has |-> FALSE, geojson |-> NoGeoJSON,
              message |-> "coordinates property must be an array"]
        ELSE IF ~ConvertsToPolygon(coords.val)
        THEN [has |-> FALSE, geojson |-> NoGeoJSON,
              message |-> "coordinates array must have at least 2 numbers"]
        ELSE [has |-> TRUE,
              geojson |-> GeoJSONGeometry("Polygon", ConvertPolygon(coords.val)),
              message |-> ""]

\* the text of a double with an integral value
DoubleText(n) == ToString(n) \o ".0"

RECURSIVE JoinTexts(_, _)
JoinTexts(texts, i) ==
    IF i > Len(texts) THEN ""
    ELSE IF i = Len(texts) THEN texts[i]
    ELSE texts[i] \o "," \o JoinTexts(texts, i + 1)

PointText(p) == "[" \o DoubleText(p.x) \o "," \o DoubleText(p.y) \o "]"
RingText(r) == "[" \o JoinTexts([i \in 1..Len(r) |-> PointText(r[i])], 1) \o "]"
RingsText(rs) == "[" \o JoinTexts([i \in 1..Len(rs) |-> RingText(rs[i])], 1) \o "]"

\* std::string mapbox::geojson::stringify(const geojson&), for a geometry
stringify(g) ==
    "{\"type\":\"" \o g.gtype \o "\",\"coordinates\":" \o RingsText(g.rings) \o "}"

----------------------------------------------------------------------------
(* Features and the evaluation context.  A feature is [has, type, points]:
   type its FeatureType, points the tile-local points of its geometry.  A
   tile id is [has, x, y]. *)

\* extent of a tile in the units of the polygon's coordinate space
TileExtent == 4

NoFeature == [has |-> FALSE, type |-> "Unknown", points |-> <<>>]
Feature(t, ps) == [has |-> TRUE, type |-> t, points |-> ps]
NoCanonical == [has |-> FALSE, x |-> 0, y |-> 0]
Canonical(cx, cy) == [has |-> TRUE, x |-> cx, y |-> cy]

\* a tile-local point in the polygon's coordinate space
Reproject(p, canonical) ==
    Pt(p.x + canonical.x * TileExtent, p.y + canonical.y * TileExtent)

\* Feature::geometry_type convertGeometry(feature, canonical): [kind, points]
convertGeometry(feature, canonical) ==
    LET ps == [i \in 1..Len(feature.points) |-> Reproject(feature.points[i], canonical)]
    IN  CASE feature.type = "Point" ->
                IF Len(ps) = 1 THEN [kind |-> "point", points |-> ps]
                               ELSE [kind |-> "multi_point", points |-> ps]
          [] feature.type = "LineString" -> [kind |-> "line_string", points |-> ps]
          [] feature.type = "Polygon" -> [kind |-> "polygon", points |-> ps]
          [] OTHER -> [kind |-> "empty", points |-> <<>>]

\* The multi_point branch (lines 59-68) from the j-th point on, result being
\* the local of that name: the set of outcomes [status, result, tested].
RECURSIVE MultiPointLoop(_, _, _, _)
MultiPointLoop(points, polygons, j, result) ==
    IF j > Len(points)
    THEN {[status |-> "ok", result |-> result, tested |-> j - 1]}
    ELSE UNION {
        IF o.status = "crash"
        THEN {[status |-> "crash", result |-> FALSE, tested |-> j]}
        ELSE IF ~o.result
        THEN {[status |-> "ok", result |-> FALSE, tested |-> j]}
        ELSE MultiPointLoop(points, polygons, j + 1, o.result)
        : o \in pointWithinPolygons(points[j], polygons)}

\* The multi_point branch without its early return: every point is tested
\* and the last test decides.
RECURSIVE MultiPointLoopNoReturn(_, _, _, _)
MultiPointLoopNoReturn(points, polygons, j, result) ==
    IF j > Len(points)
    THEN {[status |-> "ok", result |-> result, tested |-> j - 1]}
    ELSE UNION {
        IF o.status = "crash"
        THEN {[status |-> "crash", result |-> FALSE, tested |-> j]}
        ELSE MultiPointLoopNoReturn(points, polygons, j + 1, o.result)
        : o \in pointWithinPolygons(points[j], polygons)}

MultiPointNoReturn(points, polygons) == MultiPointLoopNoReturn(points, polygons, 1, FALSE)

\* [&polygons](const multi_point<double>& points) -> bool { ... }
MultiPointWithinPolygons(points, polygons) == MultiPointLoop(points, polygons, 1, FALSE)

\* [&polygons](const point<double>& point) -> bool { ... }
PointWithinPolygons(point, polygons) ==
    {[status |-> o.status, result |-> o.result, tested |-> 1]
        : o \in pointWithinPolygons(point, polygons)}

\* bool pointsWithinPolygons(feature, canonical, geoJson)
pointsWithinPolygons(feature, canonical, geoJson) ==
    IF geoJson.kind = "geometry" /\ geoJson.gtype = "Polygon"
    THEN LET g == convertGeometry(feature, canonical)
         IN  CASE g.kind = "point" -> PointWithinPolygons(g.points[1], geoJson.rings)
               [] g.kind = "multi_point" -> MultiPointWithinPolygons(g.points, geoJson.rings)
               [] OTHER -> {[status |-> "ok", result |-> FALSE, tested |-> 0]}
    ELSE {[status |-> "ok", result |-> FALSE, tested |-> 0]}

----------------------------------------------------------------------------
(* The expression node *)

NoNode == [live |-> FALSE, geoJSONSource |-> NoGeoJSON]

\* the node built from a moved-from GeoJSON value
WithinMovedFrom(geojson) == [live |-> TRUE, geoJSONSource |-> GeoJSONGeometry("Polygon", <<>>)]

\* Within::Within(GeoJSON geojson)
Within(geojson) == [live |-> TRUE, geoJSONSource |-> geojson]

Params(f, c) == [feature |-> f, canonical |-> c]

\* EvaluationResult Within::evaluate(const EvaluationContext& params) const:
\* the set of outcomes [status, result, warnings, consulted], warnings the
\* number of Log::Warning calls, consulted whether pointsWithinPolygons ran.
Evaluate(n, params) ==
    IF ~params.feature.has \/ ~params.canonical.has
    THEN {[status |-> "ok", result |-> FALSE, warnings |-> 0, consulted |-> FALSE]}
    ELSE IF params.feature.type = "Point"
    THEN {[status |-> o.status, result |-> o.result, warnings |-> 0, consulted |-> TRUE]
            : o \in pointsWithinPolygons(params.feature, params.canonical, n.geoJSONSource)}
    ELSE {[status |-> "ok", result |-> FALSE, warnings |-> 1, consulted |-> FALSE]}

PolygonRequiredMessage ==
    "'Within' expression requires valid geojson source that contains polygon geometry type."

ArityMessage(count) ==
    "'Within' expression requires exactly one argument, but found " \o count \o " instead."

\* the value is an object whose "type" member is the string "Polygon"
IsPolygonObject(value) ==
    /\ isObject(value)
    /\ objectMember(value, "type").has
    /\ toString(objectMember(value, "type").val).has
    /\ toString(objectMember(value, "type").val).str = "Polygon"

\* optional<GeoJSON> parseValue(value_, ctx): [has, geojson, errors], errors
\* the messages given to ctx.error in order.
parseValue(value) ==
    IF IsPolygonObject(value)
    THEN LET r == toGeoJSON(value)
         IN  IF r.has /\ r.message = ""
             THEN [has |-> TRUE, geojson |-> r.geojson, errors |-> <<>>]
             ELSE [has |-> FALSE, geojson |-> NoGeoJSON,
                   errors |-> <<r.message, PolygonRequiredMessage>>]
    ELSE [has |-> FALSE, geojson |-> NoGeoJSON, errors |-> <<PolygonRequiredMessage>>]

\* ParseResult Within::parse(value, ctx): [ok, node, source, errors, inspected]
parse(value) ==
    IF isArray(value)
    THEN IF arrayLength(value) # SizeT(2)
         THEN [ok |-> FALSE, node |-> NoNode, source |-> NoGeoJSON,
               errors |-> <<ArityMessage(SizeTToString(SizeTSub(arrayLength(value), SizeT(1))))>>,
               inspected |-> FALSE]
         ELSE LET parsedValue == parseValue(arrayMember(value, 1))
              IN  IF ~parsedValue.has
                  THEN [ok |-> FALSE, node |-> NoNode, source |-> NoGeoJSON,
                        errors |-> parsedValue.errors, inspected |-> TRUE]
                  ELSE [ok |-> TRUE, node |-> Within(parsedValue.geojson),
                        source |-> parsedValue.geojson,
                        errors |-> parsedValue.errors, inspected |-> TRUE]
    ELSE [ok |-> FALSE, node |-> NoNode, source |-> NoGeoJSON, errors |-> <<>>,
          inspected |-> FALSE]

\* Within::getOperator()
getOperator == "within"

\* mbgl::Value Within::serialize() const
serialize(n) == VArr(<<VStr(getOperator), VStr(stringify(n.geoJSONSource))>>)

----------------------------------------------------------------------------
(* Inputs *)

\* coordinates of polygon vertices and of test points
VertexCoords == {2 * k : k \in 0..GridN}
TestCoords == (0 - 1)..(2 * GridN + 1)
Vertices == {Pt(vx, vy) : vx \in VertexCoords, vy \in VertexCoords}
TestPoints == {Pt(tx, ty) : tx \in TestCoords, ty \in TestCoords}

\* cross product (b - a) x (c - a)
Cross(a, b, c) == (b.x - a.x) * (c.y - a.y) - (c.x - a.x) * (b.y - a.y)

\* vs lists the distinct vertices of a strictly convex polygon in order, in
\* either orientation: every vertex off an edge lies on the same side of it
IsConvexCycle(vs) ==
    LET n == Len(vs)
        nxt(i) == (i % n) + 1
        side(s) == \A i \in 1..n : \A j \in 1..n :
                      (j # i /\ j # nxt(i)) => s * Cross(vs[i], vs[nxt(i)], vs[j]) > 0
    IN  /\ \A i \in 1..n : \A j \in 1..n : i # j => vs[i] # vs[j]
        /\ side(1) \/ side(0 - 1)

Closed(vs) == Append(vs, vs[1])

\* a comes before b in the order by x, then y
Before(a, b) == a.x < b.x \/ (a.x = b.x /\ a.y < b.y)

\* the paths of n vertices in strictly convex position that start at their
\* first vertex in the order above and turn s-wards (s = 1: left, s = -1:
\* right): every vertex lies strictly on the s side of every edge of the
\* path it is not an end of
RECURSIVE TurningPaths(_, _)
TurningPaths(n, s) ==
    IF n = 1 THEN {<<v>> : v \in Vertices}
    ELSE UNION {
        {Append(c, v) : v \in {w \in Vertices :
            /\ Before(c[1], w)
            /\ c[Len(c)] # w
            /\ \A i \in 1..(Len(c) - 1) :
                /\ s * Cross(c[i], c[i + 1], w) > 0
                /\ s * Cross(c[Len(c)], w, c[i]) > 0}}
        : c \in TurningPaths(n - 1, s)}

\* the closed rings of the strictly convex polygons with 3..MaxVerts vertices
\* on the lattice, in both orientations
ConvexRings ==
    UNION {{Closed(vs) : vs \in {c \in TurningPaths(n, s) : IsConvexCycle(c)}}
            : n \in 3..MaxVerts, s \in {1, 0 - 1}}

Square == <<Pt(0, 0), Pt(4, 0), Pt(4, 4), Pt(0, 4), Pt(0, 0)>>
SquareClockwise == <<Pt(0, 0), Pt(0, 4), Pt(4, 4), Pt(4, 0), Pt(0, 0)>>
Hole == <<Pt(1, 1), Pt(1, 3), Pt(3, 3), Pt(3, 1), Pt(1, 1)>>
Triangle == <<Pt(0, 0), Pt(4, 0), Pt(0, 4), Pt(0, 0)>>
Diamond == <<Pt(2, 0), Pt(4, 2), Pt(2, 4), Pt(0, 2), Pt(2, 0)>>
OpenPath == <<Pt(0, 0), Pt(4, 4)>>
OnePointRing == <<Pt(2, 2)>>
EmptyRing == <<>>

SampleRings ==
    {Square, SquareClockwise, Hole, Triangle, Diamond, OpenPath, OnePointRing, EmptyRing}

SamplePolygons == UNION {[1..n -> SampleRings] : n \in 1..MaxRings}

NoEngineCall == [point |-> Pt(0, 0), polys |-> <<>>]
NoEngineOut == [status |-> "none", result |-> FALSE, rings |-> <<>>]

\* tile-local points of features
FeaturePoints == {Pt(2, 2), Pt(1, 1), Pt(0, 2), Pt(5, 5)}
Canonicals == {Canonical(0, 0), Canonical(1, 0)}

PointFeatures ==
    {Feature("Point", ps) : ps \in UNION {[1..n -> FeaturePoints] : n \in 0..MaxPoints}}
OtherFeatures ==
    {Feature("LineString", <<Pt(2, 2), Pt(1, 1)>>), Feature("Polygon", Square)}

GeoJSONSources ==
    {GeoJSONGeometry("Polygon", <<Square>>), GeoJSONGeometry("Polygon", <<Square, Hole>>),
     GeoJSONGeometry("Polygon", <<Triangle>>), GeoJSONGeometry("LineString", <<>>),
     [kind |-> "feature", gtype |-> "Polygon", rings |-> <<Square>>]}

AdapterInputs ==
    {[feature |-> f, canonical |-> c, geoJson |-> g]
        : f \in PointFeatures \cup OtherFeatures, c \in Canonicals, g \in GeoJSONSources}

NoAdapterCall ==
    [feature |-> NoFeature, canonical |-> NoCanonical, geoJson |-> NoGeoJSON]
NoAdapterOut == [status |-> "none", result |-> FALSE, tested |-> 0]

\* configuration values
PointValue(p) == VArr(<<VNum(p.x), VNum(p.y)>>)
RingValue(r) == VArr([i \in 1..Len(r) |-> PointValue(r[i])])
RingsValue(rs) == VArr([i \in 1..Len(rs) |-> RingValue(rs[i])])
GeometryObject(t, rs) ==
    VObj(<<Member("type", VStr(t)), Member("coordinates", RingsValue(rs))>>)

SecondElements ==
    {GeometryObject("Polygon", <<Square>>),
     GeometryObject("Polygon", <<Square, Hole>>),
     GeometryObject("LineString", <<Square>>),
     VObj(<<Member("type", VStr("Polygon"))>>),
     VObj(<<Member("type", VStr("Polygon")), Member("coordinates", VStr("none"))>>),
     VObj(<<Member("type", VStr("Polygon")),
            Member("coordinates", VArr(<<VArr(<<VArr(<<VNum(1)>>)>>)>>))>>),
     VObj(<<Member("coordinates", RingsValue(<<Square>>))>>),
     VObj(<<Member("type", VNum(7)), Member("coordinates", RingsValue(<<Square>>))>>),
     VStr("Polygon"),
     VNull}

\* arrays ["within", second, extra, ...] of every length up to MaxArrayLen
ArrayOfLength(n, second) ==
    VArr([i \in 1..n |-> IF i = 1 THEN VStr("within")
                         ELSE IF i = 2 THEN second
                         ELSE GeometryObject("Polygon", <<Triangle>>)])

ParseInputs ==
    {VNull, VNum(2), VStr("within"), GeometryObject("Polygon", <<Square>>)}
    \cup {ArrayOfLength(n, second) : n \in 0..MaxArrayLen, second \in SecondElements}

\* arrays ["within", polygon] whose polygon holds a ring without points: the
\* converter accepts them
EmptyRingInputs ==
    {ArrayOfLength(2, GeometryObject("Polygon", <<EmptyRing>>)),
     ArrayOfLength(2, GeometryObject("Polygon", <<Square, EmptyRing>>))}

EvalFeatures ==
    {NoFeature,
     Feature("Point", <<Pt(2, 2)>>), Feature("Point", <<Pt(5, 5)>>),
     Feature("Point", <<Pt(2, 2), Pt(1, 1)>>), Feature("Point", <<Pt(2, 2), Pt(5, 5)>>),
     Feature("Point", <<>>),
     Feature("LineString", <<Pt(2, 2), Pt(1, 1)>>), Feature("Polygon", Square)}
EvalParams == {Params(f, c) : f \in EvalFeatures, c \in Canonicals \cup {NoCanonical}}

NoParams == Params(NoFeature, NoCanonical)
NoEvalOut == [status |-> "none", result |-> FALSE, warnings |-> 0, consulted |-> FALSE]
NoSerialized == [has |-> FALSE, value |-> VNull]
NoRemembered == [has |-> FALSE, params |-> NoParams, result |-> FALSE]

----------------------------------------------------------------------------
(* Calls of the pure functions *)

EngineIdle ==
    /\ enginePhase = "idle"
    /\ engineCall = NoEngineCall
    /\ engineOut = NoEngineOut

AdapterIdle ==
    /\ adapterPhase = "idle"
    /\ adapterCall = NoAdapterCall
    /\ adapterOut = NoAdapterOut

NodeIdle ==
    /\ node = NoNode
    /\ parsedSource = NoGeoJSON
    /\ parseInput = VNull
    /\ fromSerialize = FALSE
    /\ priorSource = NoGeoJSON
    /\ parseOk = FALSE
    /\ ctxErrors = <<>>
    /\ inspected = FALSE
    /\ serialized = NoSerialized
    /\ lastOp = "none"
    /\ evalParams = NoParams
    /\ evalOut = NoEvalOut
    /\ remembered = NoRemembered

\* a call on a polygon made of sample rings
InitEngine ==
    /\ enginePhase = "ready"
    /\ \E p \in TestPoints : \E ps \in SamplePolygons :
            engineCall = [point |-> p, polys |-> ps]
    /\ engineOut = NoEngineOut
    /\ AdapterIdle
    /\ NodeIdle

\* a call on a polygon made of one convex ring
InitConvex ==
    /\ enginePhase = "ready"
    /\ \E p \in TestPoints : \E r \in ConvexRings :
            engineCall = [point |-> p, polys |-> <<r>>]
    /\ engineOut = NoEngineOut
    /\ AdapterIdle
    /\ NodeIdle

\* a call of pointWithinPolygons(point, polys)
RunEngine ==
    /\ enginePhase = "ready"
    /\ enginePhase' = "done"
    /\ engineOut' \in pointWithinPolygons(engineCall.point, engineCall.polys)
    /\ UNCHANGED <<engineCall, adapterVars, nodeVars>>

NextEngine == RunEngine

SpecEngine == InitEngine /\ [][NextEngine]_vars

SpecConvex == InitConvex /\ [][NextEngine]_vars

InitAdapter ==
    /\ adapterPhase = "ready"
    /\ adapterCall \in AdapterInputs
    /\ adapterOut = NoAdapterOut
    /\ EngineIdle
    /\ NodeIdle

\* a call of pointsWithinPolygons(feature, canonical, geoJson)
RunAdapter ==
    /\ adapterPhase = "ready"
    /\ adapterPhase' = "done"
    /\ adapterOut' \in pointsWithinPolygons(adapterCall.feature, adapterCall.canonical,
                                            adapterCall.geoJson)
    /\ UNCHANGED <<adapterCall, engineVars, nodeVars>>

NextAdapter == RunAdapter

SpecAdapter == InitAdapter /\ [][NextAdapter]_vars

----------------------------------------------------------------------------
(* The life of a node: parse, then evaluate and serialize in any order; the
   value serialize returned may be given back to parse. *)

Init == EngineIdle /\ AdapterIdle /\ NodeIdle

ParseStep(value, isSerialized) ==
    LET r == parse(value)
    IN  /\ node' = r.node
        /\ parsedSource' = r.source
        /\ parseInput' = value
        /\ fromSerialize' = isSerialized
        /\ priorSource' = IF isSerialized THEN node.geoJSONSource ELSE NoGeoJSON
        /\ parseOk' = r.ok
        /\ ctxErrors' = r.errors
        /\ inspected' = r.inspected
        /\ serialized' = NoSerialized
        /\ lastOp' = "parse"
        /\ evalParams' = NoParams
        /\ evalOut' = NoEvalOut
        /\ remembered' = NoRemembered
        /\ UNCHANGED <<engineVars, adapterVars>>

\* Within::parse on a configuration value
Parse == \E value \in ParseInputs : ParseStep(value, FALSE)

\* Within::parse on the value serialize() returned for the live node
ParseSerialized ==
    /\ node.live
    /\ serialized.has
    /\ ParseStep(serialized.value, TRUE)

\* Within::evaluate on the live node; the model may keep the call in mind to
\* compare a later one with it
EvaluateNode ==
    /\ node.live
    /\ \E params \in EvalParams : \E o \in Evaluate(node, params) : \E keep \in BOOLEAN :
        /\ evalParams' = params
        /\ evalOut' = o
        /\ remembered' = IF keep THEN [has |-> TRUE, params |-> params, result |-> o.result]
                                 ELSE remembered
    /\ lastOp' = "evaluate"
    /\ UNCHANGED <<node, parsedSource, parseInput, fromSerialize, priorSource, parseOk,
                   ctxErrors, inspected, serialized, engineVars, adapterVars>>

\* Within::serialize on the live node
SerializeNode ==
    /\ node.live
    /\ serialized' = [has |-> TRUE, value |-> serialize(node)]
    /\ lastOp' = "serialize"
    /\ UNCHANGED <<node, parsedSource, parseInput, fromSerialize, priorSource, parseOk,
                   ctxErrors, inspected, evalParams, evalOut, remembered,
                   engineVars, adapterVars>>

Next == Parse \/ ParseSerialized \/ EvaluateNode \/ SerializeNode

Spec == Init /\ [][Next]_vars

\* Within::parse on a polygon that holds a ring without points
ParseEmptyRing == \E value \in EmptyRingInputs : ParseStep(value, FALSE)

NextAnyPolygon == Parse \/ ParseEmptyRing \/ ParseSerialized \/ EvaluateNode \/ SerializeNode

\* the life of a node, the polygons with an empty ring among the sources
SpecAnyPolygon == Init /\ [][NextAnyPolygon]_vars

----------------------------------------------------------------------------
(* Geometry the claims speak of *)

\* the sequences that hold the elements of q in another order
Reorderings(q) ==
    {[i \in 1..Len(q) |-> q[f[i]]] :
        f \in {g \in [1..Len(q) -> 1..Len(q)] :
                /\ \A i, j \in 1..Len(q) : g[i] = g[j] => i = j
                /\ \E i \in 1..Len(q) : g[i] # i}}
Range(q) == {q[i] : i \in 1..Len(q)}

\* r is the closed ring of a strictly convex polygon
IsConvexRing(r) ==
    /\ Len(r) >= 4
    /\ r[1] = r[Len(r)]
    /\ IsConvexCycle(SubSeq(r, 1, Len(r) - 1))

\* p lies strictly on the inner side of every edge of the convex ring r
StrictlyInside(p, r) ==
    \/ \A i \in 1..(Len(r) - 1) : Cross(r[i], r[i + 1], p) > 0
    \/ \A i \in 1..(Len(r) - 1) : Cross(r[i], r[i + 1], p) < 0

OutsideBoundingBox(p, r) ==
    \/ \A i \in 1..Len(r) : p.x < r[i].x
    \/ \A i \in 1..Len(r) : p.x > r[i].x
    \/ \A i \in 1..Len(r) : p.y < r[i].y
    \/ \A i \in 1..Len(r) : p.y > r[i].y

\* the winding number of ring r alone around p, as a difference of counts:
\* upward edges with p strictly left minus downward edges with p strictly right
WindingAlone(r, p) ==
    Cardinality({i \in 1..(Len(r) - 1) :
        r[i].y <= p.y /\ r[i + 1].y > p.y /\ Cross(r[i], r[i + 1], p) > 0})
    - Cardinality({i \in 1..(Len(r) - 1) :
        r[i].y > p.y /\ r[i + 1].y <= p.y /\ Cross(r[i], r[i + 1], p) < 0})

\* pointWithinPolygons(p, rings) returns true
TestsInside(p, rings) == \A o \in pointWithinPolygons(p, rings) : o.status = "ok" /\ o.result

----------------------------------------------------------------------------
(* Claims on pointWithinPolygons (C6 under SpecConvex, C8 and C9 under
   SpecEngine) *)

\* C6: for a single closed ring of a strictly convex polygon, in either
\* orientation, pointWithinPolygons returns true for every point strictly
\* inside the polygon and false for every point outside its bounding box; for
\* the square (0,0),(4,0),(4,4),(0,4),(0,0) it returns true at (2,2) and
\* false at (5,5).
C6_ConvexContainment ==
    (enginePhase = "done" /\ Len(engineCall.polys) = 1 /\ IsConvexRing(engineCall.polys[1]))
    => /\ engineOut.status = "ok"
       /\ StrictlyInside(engineCall.point, engineCall.polys[1]) => engineOut.result
       /\ OutsideBoundingBox(engineCall.point, engineCall.polys[1]) => ~engineOut.result
       /\ (engineCall.polys[1] = Square /\ engineCall.point = Pt(2, 2)) => engineOut.result
       /\ (engineCall.polys[1] = Square /\ engineCall.point = Pt(5, 5)) => ~engineOut.result

C6_Witness ==
    /\ enginePhase = "done"
    /\ engineCall.polys = <<Square>>
    /\ engineCall.point = Pt(2, 2)
    /\ engineOut.result

\* C8 as claimed: a ring with fewer than 2 points takes no pass of the edge
\* loop, reads nothing and leaves the winding number as it found it, wherever
\* the ring stands in the polygon.
C8_ShortRingSkipped ==
    enginePhase = "done"
    => /\ engineOut.status = "ok"
       /\ \A j \in 1..Len(engineOut.rings) :
            engineOut.rings[j].size < 2
            => /\ engineOut.rings[j].iters = 0
               /\ engineOut.rings[j].exitWn = engineOut.rings[j].entryWn

\* C9: for a polygon whose rings all have at least 2 points the call returns
\* true exactly when some ring alone winds around the point; the counter is 0
\* on entry to every ring visited, and the rings in any other order give the
\* same result.
C9_RingsOrCombined ==
    (enginePhase = "done" /\ \A k \in 1..Len(engineCall.polys) : Len(engineCall.polys[k]) >= 2)
    => /\ engineOut.status = "ok"
       /\ engineOut.result
            <=> \E k \in 1..Len(engineCall.polys) :
                    WindingAlone(engineCall.polys[k], engineCall.point) # 0
       /\ \A j \in 1..Len(engineOut.rings) : engineOut.rings[j].entryWn = 0
       /\ \A polys \in Reorderings(engineCall.polys) :
            \A o \in pointWithinPolygons(engineCall.point, polys) :
                o.status = "ok" /\ o.result = engineOut.result

\* a point inside the hole of a square with a hole is reported inside
C9_Witness ==
    /\ enginePhase = "done"
    /\ engineCall.polys = <<Square, Hole>>
    /\ engineCall.point = Pt(2, 2)
    /\ engineOut.result

----------------------------------------------------------------------------
(* Claims on pointsWithinPolygons (SpecAdapter) *)

AdapterGeometry == convertGeometry(adapterCall.feature, adapterCall.canonical)

AdapterOnMultiPoint ==
    /\ adapterPhase = "done"
    /\ adapterCall.geoJson.kind = "geometry"
    /\ adapterCall.geoJson.gtype = "Polygon"
    /\ AdapterGeometry.kind = "multi_point"

\* the points of q up to and including the first one that tests outside
TestedUntilOutside(q, rings) ==
    LET outside == {i \in 1..Len(q) : ~TestsInside(q[i], rings)}
    IN  IF outside = {} THEN Len(q) ELSE CHOOSE i \in outside : \A j \in outside : i <= j

\* C4 as claimed: for a multi-point geometry of any size the result is true
\* exactly when every point tests inside.
C4_MultiPointConjunction ==
    AdapterOnMultiPoint
    => (adapterOut.result
            <=> \A i \in 1..Len(AdapterGeometry.points) :
                    TestsInside(AdapterGeometry.points[i], adapterCall.geoJson.rings))

\* C4 amended: for a multi-point geometry with at least one point the result
\* is true exactly when every point tests inside, and testing stops at the
\* first point outside; for one with no points the result is false.
C4_NonEmptyMultiPointConjunction ==
    AdapterOnMultiPoint
    => /\ adapterOut.status = "ok"
       /\ Len(AdapterGeometry.points) >= 1
            => (adapterOut.result
                    <=> \A i \in 1..Len(AdapterGeometry.points) :
                            TestsInside(AdapterGeometry.points[i], adapterCall.geoJson.rings))
       /\ Len(AdapterGeometry.points) = 0 => ~adapterOut.result
       /\ adapterOut.tested
            = TestedUntilOutside(AdapterGeometry.points, adapterCall.geoJson.rings)

C4_Witness ==
    /\ AdapterOnMultiPoint
    /\ Len(AdapterGeometry.points) >= 2
    /\ adapterOut.result

----------------------------------------------------------------------------
(* Claims on the node (Spec) *)

Results(outcomes) == {o.result : o \in outcomes}

\* C1 as claimed: parse of what serialize returned succeeds and gives a node
\* that evaluates as the serialized node does, in every context.
C1_RoundTrip ==
    fromSerialize
    => /\ parseOk
       /\ \A params \in EvalParams :
            Results(Evaluate(node, params)) = Results(Evaluate(Within(priorSource), params))

\* C2 as claimed: after a parse, no node was returned exactly when at least
\* one error was reported.
C2_FailureSurfaced ==
    lastOp = "parse"
    => /\ ~parseOk => Len(ctxErrors) >= 1
       /\ Len(ctxErrors) >= 1 => ~parseOk

\* C3 as claimed: after a parse of a 2-element array, a converter failure on
\* a "Polygon" object is reported as the converter's message alone, the fixed
\* message appears only for a value that is no "Polygon" object, and a failed
\* parse reports exactly one error.
C3_MessageMatchesCause ==
    (lastOp = "parse" /\ isArray(parseInput) /\ Len(parseInput.elems) = 2)
    => LET second == arrayMember(parseInput, 1)
       IN  /\ (IsPolygonObject(second) /\ ~toGeoJSON(second).has)
                => ctxErrors = <<toGeoJSON(second).message>>
           /\ PolygonRequiredMessage \in Range(ctxErrors) => ~IsPolygonObject(second)
           /\ ~parseOk => Len(ctxErrors) = 1

\* C7 as claimed: after a parse of an array of n # 2 elements no node was
\* returned, the second element was not inspected, and the one error
\* reported names n - 1 arguments (none for the empty array).
C7_ArityCount ==
    (lastOp = "parse" /\ isArray(parseInput) /\ Len(parseInput.elems) # 2)
    => /\ ~parseOk
       /\ ~inspected
       /\ \/ ctxErrors = <<ArityMessage(ToString(Len(parseInput.elems) - 1))>>
          \/ Len(parseInput.elems) = 0 /\ ctxErrors = <<ArityMessage("0")>>

EvalContextMissing == ~evalParams.feature.has \/ ~evalParams.canonical.has

\* C5 as claimed: after an evaluate, the call returned a boolean; with the
\* feature or the tile id absent it is false, nothing was logged and the
\* adapter did not run; with both present and a feature type other than Point
\* it is false, one warning was logged and the adapter did not run; with both
\* present and type Point the adapter ran and nothing was logged.
C5_EvaluateDegrades ==
    lastOp = "evaluate"
    => /\ evalOut.status = "ok"
       /\ evalOut.result \in BOOLEAN
       /\ EvalContextMissing
            => ~evalOut.result /\ evalOut.warnings = 0 /\ ~evalOut.consulted
       /\ (~EvalContextMissing /\ evalParams.feature.type # "Point")
            => ~evalOut.result /\ evalOut.warnings = 1 /\ ~evalOut.consulted
       /\ (~EvalContextMissing /\ evalParams.feature.type = "Point")
            => evalOut.consulted /\ evalOut.warnings = 0

\* C10: a live node's source is the GeoJSON value converted at parse time, a
\* geometry of type Polygon, whatever evaluate and serialize calls were made;
\* and an evaluate returns what an earlier evaluate of the node with the same
\* feature and tile id returned.
C10_SourceFixed ==
    node.live
    => /\ node.geoJSONSource = parsedSource
       /\ node.geoJSONSource.kind = "geometry"
       /\ node.geoJSONSource.gtype = "Polygon"
       /\ (lastOp = "evaluate" /\ remembered.has /\ remembered.params = evalParams)
            => evalOut.result = remembered.result

C10_Witness ==
    /\ node.live
    /\ serialized.has
    /\ lastOp = "evaluate"
    /\ remembered.has
    /\ remembered.params = evalParams
    /\ evalOut.consulted
    /\ evalOut.result

====
